---- MODULE Spec2Model ----
(***************************************************************************)
(* Churn prediction pipeline: the serving form's auto-fix rule chain       *)
(* (app.py), the scoring call (inference.py), the batch feature build and  *)
(* time split (processing.py) and the feature contract kept by training    *)
(* (train.py).                                                             *)
(*                                                                         *)
(* Numbers: Python floats that the code only compares with 0.0, copies or  *)
(* compares with each other are integers here: rates and probabilities in  *)
(* hundredths, the batch table's numeric cells in tenths.                  *)
(***************************************************************************)
EXTENDS Integers, Sequences, FiniteSets, TLC

VARIABLES
    rec,        \* repair: the record the rule chain is applied to next
    prev,       \* repair: the record the last application started from
    audit,      \* repair: the `fixes` list of the last application
    applied,    \* repair: number of applications so far
    orig,       \* repair: the record the first application started from
    FEATURES,   \* inference.py: the feature contract loaded at start-up
    payload,    \* the request payload (a mapping from field name to value)
    fixes,      \* app.py: the auto-fixes of the last script run
    call,       \* the arguments of the last predict call
    X,          \* the row _prep handed to the model in the last predict call
    out,        \* what the last predict call returned or raised
    lastOut,    \* what the predict call before it returned or raised
    input,      \* processing.py: the table load_input returned
    df,         \* processing.py: main's data frame
    pc,         \* processing.py: the step main is at
    err,        \* processing.py: the error main raised, if any
    train_df,   \* processing.py: the three partitions written
    val_df,
    test_df

repairVars == <<rec, prev, audit, applied, orig>>
serveVars == <<FEATURES, payload, fixes, call, X, out, lastOut>>

batchVars == <<input, df, pc, err, train_df, val_df, test_df>>

vars == <<rec, prev, audit, applied, orig,
          FEATURES, payload, fixes, call, X, out, lastOut,
          input, df, pc, err, train_df, val_df, test_df>>

\* Values of the variables a specification does not use.
None == [kind |-> "none"]
RepairIdle ==
    /\ rec = None /\ prev = None /\ orig = None /\ audit = <<>> /\ applied = 0
ServeIdle ==
    /\ FEATURES = <<>> /\ payload = None /\ fixes = <<>> /\ call = None
    /\ X = <<>> /\ out = None /\ lastOut = None
BatchIdle ==
    /\ input = None /\ df = None /\ pc = "idle" /\ err = None
    /\ train_df = <<>> /\ val_df = <<>> /\ test_df = <<>>

(***************************************************************************)
(* app.py: the request payload and the auto-fix rule chain                 *)
(***************************************************************************)

\* Bounds of the records the rule chain is tried on.
MaxCount == 2
MaxMetric == 1
MaxApply == 2

\* app.py 59-73: the payload built from the widgets.  The fields the rule
\* chain never reads keep the widgets' default values.
Payload(sessions, days, turns, tokens, switch, primary) ==
    [ tokens_per_session_7d    |-> tokens,
      sessions_7d              |-> sessions,
      active_days_7d           |-> days,
      avg_turns_per_session_7d |-> turns,
      error_rate_7d            |-> 5,
      avg_latency_ms_7d        |-> 600,
      sessions_trend_7d        |-> 0,
      tokens_trend_7d          |-> 0,
      model_switch_rate_7d     |-> switch,
      activated_800            |-> 0,
      obs_month                |-> 1,
      obs_dow                  |-> 2,
      primary_model_7d         |-> primary ]

\* The audit messages, word for word.
MsgActiveDays == "active_days_7d set to 1 because sessions_7d > 0"
MsgSessions   == "sessions_7d set to active_days_7d because active_days_7d > 0"
MsgAvgTurns   == "avg_turns_per_session_7d set to 0 because sessions_7d = 0"
MsgTokens     == "tokens_per_session_7d set to 0 because sessions_7d = 0"
MsgSwitchRate == "model_switch_rate_7d set to 0 because sessions_7d = 0"

\* The rule chain works on the pair (payload, fixes).
\* app.py 81-83
RuleActiveDays(s) ==
    IF s.payload.sessions_7d > 0 /\ s.payload.active_days_7d = 0
    THEN [ payload |-> [s.payload EXCEPT !.active_days_7d = 1],
           fixes   |-> Append(s.fixes, MsgActiveDays) ]
    ELSE s

\* A rule 2 that copies one day too few.
RuleSessionsOffByOne(s) ==
    IF s.payload.active_days_7d > 0 /\ s.payload.sessions_7d = 0
    THEN [ payload |-> [s.payload EXCEPT !.sessions_7d = s.payload.active_days_7d - 1],
           fixes   |-> Append(s.fixes, MsgSessions) ]
    ELSE s

\* app.py 85-87
RuleSessions(s) ==
    IF s.payload.active_days_7d > 0 /\ s.payload.sessions_7d = 0
    THEN [ payload |-> [s.payload EXCEPT !.sessions_7d = s.payload.active_days_7d],
           fixes   |-> Append(s.fixes, MsgSessions) ]
    ELSE s

\* app.py 91-93
ZeroAvgTurns(s) ==
    IF s.payload.avg_turns_per_session_7d # 0
    THEN [ payload |-> [s.payload EXCEPT !.avg_turns_per_session_7d = 0],
           fixes   |-> Append(s.fixes, MsgAvgTurns) ]
    ELSE s

\* app.py 95-97
ZeroTokens(s) ==
    IF s.payload.tokens_per_session_7d # 0
    THEN [ payload |-> [s.payload EXCEPT !.tokens_per_session_7d = 0],
           fixes   |-> Append(s.fixes, MsgTokens) ]
    ELSE s

\* A zeroing step that reports the fix whether or not the value changed.
ZeroSwitchRateAlwaysLogged(s) ==
    [ payload |-> [s.payload EXCEPT !.model_switch_rate_7d = 0],
      fixes   |-> Append(s.fixes, MsgSwitchRate) ]

\* app.py 99-101
ZeroSwitchRate(s) ==
    IF s.payload.model_switch_rate_7d # 0
    THEN [ payload |-> [s.payload EXCEPT !.model_switch_rate_7d = 0],
           fixes   |-> Append(s.fixes, MsgSwitchRate) ]
    ELSE s

\* app.py 90-101
RulePerSession(s) ==
    IF s.payload.sessions_7d = 0
    THEN ZeroSwitchRate(ZeroTokens(ZeroAvgTurns(s)))
    ELSE s

\* A chain that tests "no sessions" before rules 1-2 have run, and applies
\* the zeroing it decided on after them.
AutoFixStaleSessions(p) ==
    LET s12 == RuleSessions(RuleActiveDays([payload |-> p, fixes |-> <<>>]))
    IN  IF p.sessions_7d = 0
        THEN ZeroSwitchRate(ZeroTokens(ZeroAvgTurns(s12)))
        ELSE s12

\* app.py 78-101: fixes = [] and the three rules in order.
AutoFix(p) ==
    RulePerSession(RuleSessions(RuleActiveDays([payload |-> p, fixes |-> <<>>])))

\* The UI's choices of primary_model_7d (app.py 50-54).
UiModels == {"gpt-4o", "gpt-4.1", "gpt-4o-mini", "gpt-3.5", "other"}

\* Records the rule chain is tried on: any integer counts (negative ones
\* included), any metric values.
Counts == -1 .. MaxCount
Metrics == -MaxMetric .. MaxMetric
RepairInputs ==
    { Payload(s, d, t, k, m, "gpt-4o") :
        s \in Counts, d \in Counts, t \in Metrics, k \in Metrics, m \in Metrics }

InitRepair ==
    /\ rec \in RepairInputs
    /\ prev = rec
    /\ orig = rec
    /\ audit = <<>>
    /\ applied = 0
    /\ ServeIdle
    /\ BatchIdle

\* One application of the rule chain to the current record.
ApplyRepair ==
    /\ applied < MaxApply
    /\ prev' = rec
    /\ rec' = AutoFix(rec).payload
    /\ audit' = AutoFix(rec).fixes
    /\ applied' = applied + 1
    /\ UNCHANGED orig
    /\ UNCHANGED <<serveVars, batchVars>>

NextRepair == ApplyRepair

SpecRepair == InitRepair /\ [][NextRepair]_vars

\* C1: repair is idempotent: applying the rule chain to the record a first
\* application produced returns that record unchanged, with an empty audit.
RepairIdempotent ==
    applied >= 2 => (rec = prev /\ audit = <<>>)

\* A second application has run on a record the first one had changed.
RepairIdempotentWitness ==
    /\ applied = 2
    /\ prev # orig
    /\ rec = prev
    /\ audit = <<>>

\* C4: rule 3 looks at sessions_7d as rules 1-2 left it: the three
\* per-session metrics are forced to 0 exactly when that value is 0, and a
\* record with sessions_7d = 0 and active_days_7d = k > 0 comes out with
\* sessions_7d = k and its per-session metrics untouched.
RuleThreeUsesUpdatedSessions ==
    applied >= 1 =>
        LET s12 == IF prev.sessions_7d = 0 /\ prev.active_days_7d > 0
                   THEN prev.active_days_7d
                   ELSE prev.sessions_7d
        IN  /\ rec.sessions_7d = s12
            /\ s12 = 0 =>
                  /\ rec.avg_turns_per_session_7d = 0
                  /\ rec.tokens_per_session_7d = 0
                  /\ rec.model_switch_rate_7d = 0
            /\ s12 # 0 =>
                  /\ rec.avg_turns_per_session_7d = prev.avg_turns_per_session_7d
                  /\ rec.tokens_per_session_7d = prev.tokens_per_session_7d
                  /\ rec.model_switch_rate_7d = prev.model_switch_rate_7d

\* sessions_7d = 0 with active days and nonzero per-session metrics went
\* through the chain.
RuleThreeUsesUpdatedSessionsWitness ==
    /\ applied = 1
    /\ prev.sessions_7d = 0
    /\ prev.active_days_7d = MaxCount
    /\ prev.tokens_per_session_7d = 1
    /\ prev.avg_turns_per_session_7d = 1
    /\ prev.model_switch_rate_7d = 1
    /\ rec.sessions_7d = MaxCount
    /\ rec.tokens_per_session_7d = 1

\* The fields the chain can write, with their messages, in rule order.
AuditOrder ==
    << [field |-> "active_days_7d",           msg |-> MsgActiveDays],
       [field |-> "sessions_7d",              msg |-> MsgSessions],
       [field |-> "avg_turns_per_session_7d", msg |-> MsgAvgTurns],
       [field |-> "tokens_per_session_7d",    msg |-> MsgTokens],
       [field |-> "model_switch_rate_7d",     msg |-> MsgSwitchRate] >>

\* C5: the audit holds exactly one entry for each field whose value the
\* chain changed, in rule order, and is empty exactly when the output record
\* equals the input record.
AuditMatchesChanges ==
    applied >= 1 =>
        LET Changed(e) == rec[e.field] # prev[e.field]
            expected == SelectSeq(AuditOrder, Changed)
        IN  /\ audit = [i \in 1 .. Len(expected) |-> expected[i].msg]
            /\ (audit = <<>>) <=> (rec = prev)

\* No sessions, no active days, nonzero tokens per session: the value is
\* zeroed and the audit says so.
AuditMatchesChangesWitness ==
    /\ applied = 1
    /\ prev.sessions_7d = 0
    /\ prev.active_days_7d = 0
    /\ prev.tokens_per_session_7d = 1
    /\ prev.avg_turns_per_session_7d = 0
    /\ prev.model_switch_rate_7d = 0
    /\ rec.tokens_per_session_7d = 0
    /\ audit = <<MsgTokens>>

(***************************************************************************)
(* inference.py: _prep and predict                                         *)
(***************************************************************************)

\* Bound of the values a payload field takes in direct predict calls.
MaxVal == 1

\* inference.py 27: `if c not in df.columns`.
HasColumn(one, c) == c \in DOMAIN one

\* inference.py 28: df[c] = 0 on a one-row frame.
SetColumn(one, c, v) ==
    [k \in DOMAIN one \cup {c} |-> IF k = c THEN v ELSE one[k]]

\* The loop without its test: every contract column is overwritten with 0.
AddMissingOverwriting(one, features) ==
    [k \in DOMAIN one \cup {features[i] : i \in 1 .. Len(features)} |->
        IF \E i \in 1 .. Len(features) : features[i] = k THEN 0 ELSE one[k]]

\* inference.py 26-28: the loop over FEATURES, adding each absent column as 0.
RECURSIVE AddMissing(_, _)
AddMissing(one, features) ==
    IF features = <<>>
    THEN one
    ELSE AddMissing(
            IF HasColumn(one, Head(features)) THEN one ELSE SetColumn(one, Head(features), 0),
            Tail(features))

\* inference.py 29: df[FEATURES], the row's cells in the contract's order.
Project(one, features) ==
    [i \in 1 .. Len(features) |-> [col |-> features[i], val |-> one[features[i]]]]

\* inference.py 24-29: the one-row frame of the payload, completed and
\* projected.
Prep(p, features) == Project(AddMissing(p, features), features)

\* str.lower() on the model names that are tried.
Lower(name) ==
    CASE name = "LogReg" -> "logreg"
      [] OTHER           -> name

\* A decision that does not count equality as churn.
DecisionStrict(prob, threshold) == IF prob > threshold THEN 1 ELSE 0

\* inference.py 41: int(prob >= threshold).
Decision(prob, threshold) == IF prob >= threshold THEN 1 ELSE 0

\* inference.py 31-42.  probXgb and probLogreg are what the two fitted
\* models answer for the row X (the models themselves are library objects).
Predict(p, features, model_choice, threshold, probXgb, probLogreg) ==
    LET row == Prep(p, features)
        ok(prob) == [ kind |-> "ok",
                      churn_probability |-> prob,
                      churn_prediction  |-> Decision(prob, threshold),
                      threshold         |-> threshold ]
    IN  [ X   |-> row,
          out |-> IF Lower(model_choice) \in {"xgb", "xgboost"}
                  THEN ok(probXgb)
                  ELSE IF Lower(model_choice) \in {"logreg", "logistic"}
                  THEN ok(probLogreg)
                  ELSE [ kind |-> "ValueError",
                         msg  |-> "model_choice must be 'xgb' or 'logreg'" ] ]

\* Inputs of direct predict calls.
ContractPool == {"sessions_7d", "tokens_per_session_7d", "activated_800"}
Contracts ==
    { f \in UNION { [1 .. n -> ContractPool] : n \in 0 .. Cardinality(ContractPool) } :
        \A i, j \in DOMAIN f : i # j => f[i] # f[j] }
PayloadKeys == {"sessions_7d", "tokens_per_session_7d", "user_note"}
RawPayloads == UNION { [ks -> 0 .. MaxVal] : ks \in SUBSET PayloadKeys }
ModelChoices == {"xgb", "LogReg", "rf"}
Thresholds == {35, 50}
Probs == {35, 40}

InitInference ==
    /\ FEATURES \in Contracts
    /\ payload \in RawPayloads
    /\ fixes = <<>>
    /\ call = None
    /\ X = <<>>
    /\ out = None
    /\ lastOut = None
    /\ RepairIdle
    /\ BatchIdle

\* One call of predict on the payload.
PredictCall ==
    \E mc \in ModelChoices, th \in Thresholds, pX \in Probs, pL \in Probs :
        LET r == Predict(payload, FEATURES, mc, th, pX, pL)
        IN  /\ call' = [kind |-> "call", model_choice |-> mc, threshold |-> th]
            /\ X' = r.X
            /\ out' = r.out
            /\ lastOut' = out
            /\ UNCHANGED <<FEATURES, payload, fixes>>
            /\ UNCHANGED <<repairVars, batchVars>>

NextInference == PredictCall

SpecInference == InitInference /\ [][NextInference]_vars

\* C2: the row handed to the model has exactly the contract's columns in
\* the contract's order; a contract column the payload has carries the
\* payload's value, one it lacks carries 0, and payload fields outside the
\* contract are dropped.
PrepMatchesContract ==
    call # None =>
        /\ [i \in 1 .. Len(X) |-> X[i].col] = FEATURES
        /\ \A i \in 1 .. Len(X) :
              /\ X[i].col \in DOMAIN payload => X[i].val = payload[X[i].col]
              /\ X[i].col \notin DOMAIN payload => X[i].val = 0
        /\ \A k \in DOMAIN payload :
              (\A i \in 1 .. Len(FEATURES) : FEATURES[i] # k)
                  => \A i \in 1 .. Len(X) : X[i].col # k

\* A payload with a contract column (nonzero), without another, and with a
\* field outside the contract, was prepared.
PrepMatchesContractWitness ==
    /\ call # None
    /\ FEATURES = <<"tokens_per_session_7d", "activated_800", "sessions_7d">>
    /\ DOMAIN payload = {"sessions_7d", "user_note"}
    /\ payload["sessions_7d"] = 1
    /\ X = << [col |-> "tokens_per_session_7d", val |-> 0],
              [col |-> "activated_800", val |-> 0],
              [col |-> "sessions_7d", val |-> 1] >>

\* C6: with a known model the decision is 1 exactly when the probability is
\* >= the threshold passed to this call; nothing of an earlier call enters.
DecisionUsesCallThreshold ==
    (call # None /\ out.kind = "ok") =>
        /\ out.threshold = call.threshold
        /\ (out.churn_prediction = 1) <=> (out.churn_probability >= call.threshold)
        /\ out.churn_prediction \in {0, 1}

\* The same probability 0.40 scored at 0.35 and then at 0.50, and a
\* probability equal to its threshold.
DecisionUsesCallThresholdWitness ==
    /\ call # None /\ out.kind = "ok" /\ lastOut.kind = "ok"
    /\ lastOut.churn_probability = 40 /\ lastOut.threshold = 35
    /\ lastOut.churn_prediction = 1
    /\ out.churn_probability = 40 /\ out.threshold = 50
    /\ out.churn_prediction = 0

(***************************************************************************)
(* processing.py: main, the batch feature build and the time split         *)
(*                                                                         *)
(* A data frame is [cols, rows]: the column names in order, and the rows   *)
(* in order, each a mapping from column name to cell.  A raw cell is       *)
(* [kind, v]: kind "num" is a number (v in tenths), "numstr" a string that *)
(* parses as that number, "iso" a date string of day v of 2024, "str" a    *)
(* category (v its rank in Categories), "text" any other string, "missing" *)
(* an absent value.                                                        *)
(***************************************************************************)

\* Bounds of the tables the batch run is tried on.
MaxRows == 4
MaxDate == 2

Cell(kind, v) == [kind |-> kind, v |-> v]

\* pandas' NaN / NaT.
NaN == Cell("nan", 0)
NaT == -1

\* processing.py 101-107
required_cols ==
    <<"user_id", "obs_end_date", "churned_14d", "tokens_per_session_7d", "primary_model_7d">>

\* processing.py 124
leakage_cols == <<"unsubscribe_ts">>

\* The categories the data holds, in Python's string order (the order
\* get_dummies sorts them in).
Categories == <<"gpt-4.1", "gpt-4o", "other", "unknown">>
CategoryRank(c) == CHOOSE i \in 1 .. Len(Categories) : Categories[i] = c

\* get_dummies' column name, prefix + "_" + category.
DummyName(c) ==
    CASE c = "gpt-4.1" -> "primary_model_7d_gpt-4.1"
      [] c = "gpt-4o"  -> "primary_model_7d_gpt-4o"
      [] c = "other"   -> "primary_model_7d_other"
      [] c = "unknown" -> "primary_model_7d_unknown"

SeqToSet(q) == {q[i] : i \in 1 .. Len(q)}
HasCol(frame, c) == c \in SeqToSet(frame.cols)

\* df[c], the column's cells in row order.
Col(frame, c) == [i \in 1 .. Len(frame.rows) |-> frame.rows[i][c]]

\* df[c] = vals: the column is appended when it is new.
SetCol(frame, c, vals) ==
    [ cols |-> IF HasCol(frame, c) THEN frame.cols ELSE Append(frame.cols, c),
      rows |-> [i \in 1 .. Len(frame.rows) |->
                  [k \in DOMAIN frame.rows[i] \cup {c} |->
                      IF k = c THEN vals[i] ELSE frame.rows[i][k]]] ]

\* df.drop(columns=gone)
DropCols(frame, gone) ==
    LET Keep(c) == c \notin gone
    IN  [ cols |-> SelectSeq(frame.cols, Keep),
          rows |-> [i \in 1 .. Len(frame.rows) |->
                      [k \in DOMAIN frame.rows[i] \ gone |-> frame.rows[i][k]]] ]

\* A check that stops at the first missing column.
MissingFirstOnly(frame) ==
    LET Absent(c) == ~HasCol(frame, c)
        all == SelectSeq(required_cols, Absent)
    IN  IF all = <<>> THEN <<>> ELSE <<Head(all)>>

\* processing.py 108: [c for c in required_cols if c not in df.columns]
Missing(frame) ==
    LET Absent(c) == ~HasCol(frame, c)
    IN  SelectSeq(required_cols, Absent)

\* pd.to_datetime(errors="coerce"): a date string becomes its day, anything
\* else NaT.
ToDatetime(c) == IF c.kind = "iso" THEN c.v ELSE NaT

\* pd.to_numeric(errors="coerce"): numbers and numeric strings become
\* numbers, anything else NaN.
ToNumeric(c) == IF c.kind \in {"num", "numstr"} THEN Cell("num", c.v) ELSE NaN

\* .fillna(0) on a numeric cell; the result is the number, in tenths.
FillNa0(c) == IF c.kind = "nan" THEN 0 ELSE c.v

\* .astype(int) of a float given in tenths: truncation toward zero.
AsInt(t) == IF t >= 0 THEN t \div 10 ELSE -((-t) \div 10)

\* processing.py 113
ParseDates(frame) ==
    LET raw == Col(frame, "obs_end_date")
    IN  SetCol(frame, "obs_end_date", [i \in DOMAIN raw |-> ToDatetime(raw[i])])

\* processing.py 115: int(df["obs_end_date"].isna().sum())
BadRows(frame) ==
    Cardinality({i \in 1 .. Len(frame.rows) : frame.rows[i]["obs_end_date"] = NaT})

\* processing.py 119
CoerceLabel(frame) ==
    LET raw == Col(frame, "churned_14d")
    IN  SetCol(frame, "churned_14d",
               [i \in DOMAIN raw |-> AsInt(FillNa0(ToNumeric(raw[i])))])

\* processing.py 124-125
DropLeakage(frame) ==
    DropCols(frame, {c \in SeqToSet(leakage_cols) : HasCol(frame, c)})

\* .dt.month and .dt.dayofweek of day d of 2024 (day 1 is Monday 1 January;
\* good through March).
Month(d) == IF d <= 31 THEN 1 ELSE IF d <= 60 THEN 2 ELSE 3
DayOfWeek(d) == (d - 1) % 7

\* processing.py 130-134.  tokens_per_session_7d stays in tenths, so 800
\* reads 8000.
EngineerFeatures(frame) ==
    LET raw == Col(frame, "tokens_per_session_7d")
        f1 == SetCol(frame, "tokens_per_session_7d",
                     [i \in DOMAIN raw |-> FillNa0(ToNumeric(raw[i]))])
        tok == Col(f1, "tokens_per_session_7d")
        f2 == SetCol(f1, "activated_800",
                     [i \in DOMAIN tok |-> IF tok[i] >= 8000 THEN 1 ELSE 0])
        day == Col(f2, "obs_end_date")
        f3 == SetCol(f2, "obs_month", [i \in DOMAIN day |-> Month(day[i])])
    IN  SetCol(f3, "obs_dow", [i \in DOMAIN day |-> DayOfWeek(day[i])])

\* processing.py 139-144.  The numeric columns hold no NaN by this step
\* (label and tokens were filled, the derived columns come from parsed
\* dates), so lines 139-140 change nothing; the category column gets
\* "unknown" for missing values and becomes a string.
HandleMissingValues(frame) ==
    LET raw == Col(frame, "primary_model_7d")
    IN  SetCol(frame, "primary_model_7d",
               [i \in DOMAIN raw |->
                   IF raw[i].kind = "str" THEN Categories[raw[i].v] ELSE "unknown"])

\* The categories get_dummies keeps: the sorted distinct values without the
\* first.
DummyCats(frame) ==
    LET present == {frame.rows[i]["primary_model_7d"] : i \in 1 .. Len(frame.rows)}
        Kept(c) == /\ c \in present
                   /\ \E b \in present : CategoryRank(b) < CategoryRank(c)
    IN  SelectSeq(Categories, Kept)

RECURSIVE AddDummies(_, _)
AddDummies(frame, cats) ==
    IF cats = <<>>
    THEN frame
    ELSE LET cat == Col(frame, "primary_model_7d")
         IN  AddDummies(
                SetCol(frame, DummyName(Head(cats)),
                       [i \in DOMAIN cat |-> IF cat[i] = Head(cats) THEN 1 ELSE 0]),
                Tail(cats))

\* processing.py 149: pd.get_dummies(df, columns=["primary_model_7d"],
\* drop_first=True): the indicator columns go to the end, the encoded
\* column goes away.
OneHotEncode(frame) ==
    DropCols(AddDummies(frame, DummyCats(frame)), {"primary_model_7d"})

\* An ordering step that leaves the rows as they came.
Unsorted(rows) == { [i \in 1 .. Len(rows) |-> i] }

\* processing.py 154: sort_values("obs_end_date") with the default kind
\* ("quicksort"), which pandas documents as not stable: every ascending
\* order is a possible result, whatever the order of equal dates.
SortOrders(rows) ==
    { o \in [1 .. Len(rows) -> 1 .. Len(rows)] :
        /\ \A i, j \in 1 .. Len(rows) : i # j => o[i] # o[j]
        /\ \A i, j \in 1 .. Len(rows) :
              i < j => rows[o[i]]["obs_end_date"] <= rows[o[j]]["obs_end_date"] }

\* processing.py 157-158: int(n * 0.70) and int(n * 0.85).  The double
\* products truncate to these integer quotients for every n below 90.
TrainEnd(n) == (n * 70) \div 100
ValEnd(n) == (n * 85) \div 100

\* Slices whose middle one takes one row too many.
PartitionOverlapping(rows) ==
    LET n == Len(rows)
    IN  [ train |-> SubSeq(rows, 1, TrainEnd(n)),
          val   |-> SubSeq(rows, TrainEnd(n) + 1, IF ValEnd(n) < n THEN ValEnd(n) + 1 ELSE n),
          test  |-> SubSeq(rows, ValEnd(n) + 1, n) ]

\* processing.py 156-162: iloc[:train_end], iloc[train_end:val_end],
\* iloc[val_end:].
Partition(rows) ==
    LET n == Len(rows)
    IN  [ train |-> SubSeq(rows, 1, TrainEnd(n)),
          val   |-> SubSeq(rows, TrainEnd(n) + 1, ValEnd(n)),
          test  |-> SubSeq(rows, ValEnd(n) + 1, n) ]

\* The raw tables the batch run is tried on.  user_id is the row's position
\* in the input, so that a row can be told from its equals later;
\* sessions_7d stands for the feature columns main passes through untouched.
AllRawCols ==
    <<"user_id", "obs_end_date", "churned_14d", "sessions_7d",
      "tokens_per_session_7d", "primary_model_7d", "unsubscribe_ts">>
Day(k) == 30 + k
RawDates == {Cell("iso", Day(k)) : k \in 1 .. MaxDate}
TokenPattern ==
    <<Cell("num", 9000), Cell("num", 7990), Cell("missing", 0), Cell("numstr", 8000)>>
ModelPattern ==
    <<Cell("str", 2), Cell("str", 1), Cell("missing", 0), Cell("str", 3)>>
Cyc(q, i) == q[((i - 1) % Len(q)) + 1]

LabelPattern ==
    <<Cell("num", 10), Cell("text", 0), Cell("num", 0), Cell("num", 20), Cell("missing", 0)>>

\* Tables of up to MaxRows rows with every column: the dates vary freely,
\* unparsable ones included.
LongTables ==
    { [ cols |-> AllRawCols,
        rows |-> [i \in 1 .. n |->
                    [ user_id               |-> i,
                      obs_end_date          |-> dates[i],
                      churned_14d           |-> Cyc(LabelPattern, i),
                      sessions_7d           |-> 3,
                      tokens_per_session_7d |-> Cyc(TokenPattern, i),
                      primary_model_7d      |-> Cyc(ModelPattern, i),
                      unsubscribe_ts        |-> Cell("text", 0) ]] ] :
        n \in 0 .. MaxRows,
        dates \in [1 .. MaxRows -> RawDates \cup {Cell("text", 0)}] }

\* One-row tables with any subset of the columns and any kind of cell.
FullRows ==
    { [ user_id               |-> 1,
        obs_end_date          |-> d,
        churned_14d           |-> l,
        sessions_7d           |-> 3,
        tokens_per_session_7d |-> t,
        primary_model_7d      |-> m,
        unsubscribe_ts        |-> Cell("text", 0) ] :
        d \in RawDates \cup {Cell("text", 0), Cell("missing", 0)},
        l \in { Cell("num", 0), Cell("num", 10), Cell("num", 20), Cell("num", 7),
                Cell("num", -10), Cell("numstr", 10), Cell("text", 0), Cell("missing", 0) },
        t \in { Cell("num", 8000), Cell("num", 7990), Cell("text", 0) },
        m \in { Cell("str", 2), Cell("str", 3), Cell("missing", 0) } }
ColumnChoices ==
    { SelectSeq(AllRawCols, LAMBDA c : c \in cs) : cs \in SUBSET SeqToSet(AllRawCols) }
ShortTables ==
    { [ cols |-> cols,
        rows |-> [i \in 1 .. n |-> [c \in SeqToSet(cols) |-> r[c]]] ] :
        cols \in ColumnChoices, r \in FullRows, n \in 0 .. 1 }

InitBatch ==
    /\ input \in LongTables \cup ShortTables
    /\ df = input
    /\ pc = "validate"
    /\ err = None
    /\ train_df = <<>>
    /\ val_df = <<>>
    /\ test_df = <<>>
    /\ RepairIdle
    /\ ServeIdle

\* A step of main that went through, and one that raised.
Goes(to, frame) ==
    /\ pc' = to
    /\ df' = frame
    /\ UNCHANGED <<input, err, train_df, val_df, test_df>>
    /\ UNCHANGED <<repairVars, serveVars>>

Raises(frame, e) ==
    /\ pc' = "failed"
    /\ df' = frame
    /\ err' = e
    /\ UNCHANGED <<input, train_df, val_df, test_df>>
    /\ UNCHANGED <<repairVars, serveVars>>

\* processing.py 101-110
Validate ==
    /\ pc = "validate"
    /\ IF Missing(df) # <<>>
       THEN Raises(df, [kind |-> "missing_columns", missing |-> Missing(df)])
       ELSE Goes("dates", df)

\* processing.py 113-116
EnsureDates ==
    /\ pc = "dates"
    /\ IF BadRows(ParseDates(df)) > 0
       THEN Raises(ParseDates(df),
                   [kind |-> "bad_dates", bad_rows |-> BadRows(ParseDates(df))])
       ELSE Goes("label", ParseDates(df))

\* processing.py 119
EnsureLabel ==
    /\ pc = "label"
    /\ Goes("leakage", CoerceLabel(df))

\* processing.py 124-125
DropLeakageCols ==
    /\ pc = "leakage"
    /\ Goes("features", DropLeakage(df))

\* processing.py 130-134
FeatureEngineering ==
    /\ pc = "features"
    /\ Goes("missing", EngineerFeatures(df))

\* processing.py 139-144
HandleMissing ==
    /\ pc = "missing"
    /\ Goes("encode", HandleMissingValues(df))

\* processing.py 149
Encode ==
    /\ pc = "encode"
    /\ Goes("split", OneHotEncode(df))

\* processing.py 154-171: sort, cut, and write the three partitions.
TimeSplit ==
    /\ pc = "split"
    /\ \E o \in SortOrders(df.rows) :
          LET sorted == [i \in 1 .. Len(df.rows) |-> df.rows[o[i]]]
              parts == Partition(sorted)
          IN  /\ df' = [df EXCEPT !.rows = sorted]
              /\ train_df' = parts.train
              /\ val_df' = parts.val
              /\ test_df' = parts.test
    /\ pc' = "done"
    /\ UNCHANGED <<input, err>>
    /\ UNCHANGED <<repairVars, serveVars>>

NextBatch ==
    \/ Validate
    \/ EnsureDates
    \/ EnsureLabel
    \/ DropLeakageCols
    \/ FeatureEngineering
    \/ HandleMissing
    \/ Encode
    \/ TimeSplit

SpecBatch == InitBatch /\ [][NextBatch]_vars

\* The rows written, train first.
Written == train_df \o val_df \o test_df

\* C3: the three partitions do not overlap, their sizes sum to n, every row
\* is in exactly one of them, every date in train is <= every date in
\* validation <= every date in test, and a table with its required columns
\* and parsable dates is split without error however few rows it has.
SplitPartitionsRows ==
    /\ pc = "done" =>
          /\ err = None
          /\ Len(train_df) + Len(val_df) + Len(test_df) = Len(input.rows)
          /\ \A u \in 1 .. Len(input.rows) :
                Cardinality({i \in 1 .. Len(Written) : Written[i]["user_id"] = u}) = 1
          /\ \A i \in 1 .. Len(train_df), j \in 1 .. Len(val_df) :
                train_df[i]["obs_end_date"] <= val_df[j]["obs_end_date"]
          /\ \A i \in 1 .. Len(val_df), j \in 1 .. Len(test_df) :
                val_df[i]["obs_end_date"] <= test_df[j]["obs_end_date"]
          /\ \A i \in 1 .. Len(train_df), j \in 1 .. Len(test_df) :
                train_df[i]["obs_end_date"] <= test_df[j]["obs_end_date"]
    /\ pc = "failed" =>
          \/ Missing(input) # <<>>
          \/ \E i \in 1 .. Len(input.rows) : input.rows[i]["obs_end_date"].kind # "iso"

\* Four rows that came out of date order, split 2 / 1 / 1.
SplitPartitionsRowsWitness ==
    /\ pc = "done"
    /\ Len(input.rows) = 4
    /\ input.rows[1]["obs_end_date"].v > input.rows[2]["obs_end_date"].v
    /\ Len(train_df) = 2 /\ Len(val_df) = 1 /\ Len(test_df) = 1

\* C7: when required columns are absent the build fails with an error that
\* names every one of them, and no later step has run: the frame is the
\* table as loaded and nothing was written.
MissingColumnsAllNamed ==
    /\ (pc = "failed" /\ err.kind = "missing_columns") =>
          /\ SeqToSet(err.missing) = SeqToSet(required_cols) \ SeqToSet(input.cols)
          /\ df = input
          /\ Written = <<>>
    /\ pc \notin {"validate", "failed"} =>
          SeqToSet(required_cols) \subseteq SeqToSet(input.cols)
    /\ (pc = "failed" /\ err.kind # "missing_columns") =>
          SeqToSet(required_cols) \subseteq SeqToSet(input.cols)

\* A one-row table without two of the required columns was refused, both
\* named.
MissingColumnsAllNamedWitness ==
    /\ pc = "failed"
    /\ err.kind = "missing_columns"
    /\ err.missing = <<"obs_end_date", "churned_14d">>
    /\ Len(input.rows) = 1

\* C8: after label coercion every row's churned_14d is 0 or 1, whatever the
\* raw label was.
LabelIsZeroOrOne ==
    pc \in {"leakage", "features", "missing", "encode", "split", "done"} =>
        \A i \in 1 .. Len(df.rows) : df.rows[i]["churned_14d"] \in {0, 1}

\* C10 as stated: rows with equal obs_end_date keep their input order in
\* the sorted table.
SortKeepsInputOrderOfTies ==
    pc = "done" =>
        \A i, j \in 1 .. Len(df.rows) :
            (i < j /\ df.rows[i]["obs_end_date"] = df.rows[j]["obs_end_date"])
                => df.rows[i]["user_id"] < df.rows[j]["user_id"]

\* C10 as amended: the sorted table holds the input's rows, each once, in
\* ascending obs_end_date order; nothing is promised about the order of
\* rows with equal dates.
SortAscending ==
    pc = "done" =>
        /\ Len(df.rows) = Len(input.rows)
        /\ \A u \in 1 .. Len(input.rows) :
              \E i \in 1 .. Len(df.rows) :
                  /\ df.rows[i]["user_id"] = u
                  /\ df.rows[i]["obs_end_date"] = input.rows[u]["obs_end_date"].v
        /\ \A i, j \in 1 .. Len(df.rows) :
              i < j => df.rows[i]["obs_end_date"] <= df.rows[j]["obs_end_date"]

\* A table that was out of date order went through the sort, and its two
\* rows of equal date came out in the other order.
SortAscendingWitness ==
    /\ pc = "done"
    /\ Len(df.rows) = 3
    /\ input.rows[1]["obs_end_date"].v > input.rows[2]["obs_end_date"].v
    /\ input.rows[1]["obs_end_date"].v = input.rows[3]["obs_end_date"].v
    /\ df.rows[1]["user_id"] = 2
    /\ df.rows[2]["user_id"] = 3
    /\ df.rows[3]["user_id"] = 1

(***************************************************************************)
(* train.py: the feature contract; app.py: one run of the form's script    *)
(***************************************************************************)

\* processing.py 95-149 in one piece: the frame main sorts and splits.
Build(table) ==
    OneHotEncode(HandleMissingValues(EngineerFeatures(
        DropLeakage(CoerceLabel(ParseDates(table))))))

\* train.py 19-21: the columns but the identifiers, the date and the label.
FeatureCols(cols) ==
    LET drop_cols == {"user_id", "obs_end_date"}
        label_col == "churned_14d"
        Kept(c) == c \notin drop_cols \cup {label_col}
    IN  SelectSeq(cols, Kept)

\* Training tables holding a given set of categories, one row each.
Ascending(S) ==
    CHOOSE q \in [1 .. Cardinality(S) -> S] : \A i, j \in DOMAIN q : i < j => q[i] < q[j]
TrainingTable(S) ==
    [ cols |-> AllRawCols,
      rows |-> [i \in 1 .. Cardinality(S) |->
                  [ user_id               |-> i,
                    obs_end_date          |-> Cell("iso", Day(1)),
                    churned_14d           |-> Cell("num", 10),
                    sessions_7d           |-> 3,
                    tokens_per_session_7d |-> Cell("num", 8000),
                    primary_model_7d      |-> Cell("str", Ascending(S)[i]),
                    unsubscribe_ts        |-> Cell("text", 0) ]] ]
TrainingTables ==
    { TrainingTable(S) : S \in SUBSET (1 .. Len(Categories)) \ {{}} }

\* app.py 16-17: the model selector and the threshold slider (two of its
\* positions).
UiModelChoices == {"xgb", "logreg"}
UiThresholds == {35, 50}

InitServe ==
    /\ \E t \in TrainingTables : FEATURES = FeatureCols(Build(t).cols)
    /\ payload = None
    /\ fixes = <<>>
    /\ call = None
    /\ X = <<>>
    /\ out = None
    /\ lastOut = None
    /\ RepairIdle
    /\ BatchIdle

\* app.py 16-109: a run of the script in which Predict was not pressed: the
\* payload is built from the widgets and auto-fixed, nothing is scored.
ScriptRun ==
    \E s \in 0 .. MaxCount, d \in 0 .. MaxCount, m \in UiModels :
        LET fixed == AutoFix(Payload(s, d, 8, 300, 10, m))
        IN  /\ payload' = fixed.payload
            /\ fixes' = fixed.fixes
            /\ call' = None
            /\ X' = <<>>
            /\ out' = None
            /\ UNCHANGED <<FEATURES, lastOut>>
            /\ UNCHANGED <<repairVars, batchVars>>

\* app.py 16-122: a run of the script in which Predict was pressed.
ScriptRunPredict ==
    \E s \in 0 .. MaxCount, d \in 0 .. MaxCount, m \in UiModels,
       mc \in UiModelChoices, th \in UiThresholds :
        LET fixed == AutoFix(Payload(s, d, 8, 300, 10, m))
            r == Predict(fixed.payload, FEATURES, mc, th, 40, 40)
        IN  /\ payload' = fixed.payload
            /\ fixes' = fixed.fixes
            /\ call' = [kind |-> "call", model_choice |-> mc, threshold |-> th]
            /\ X' = r.X
            /\ out' = r.out
            /\ UNCHANGED <<FEATURES, lastOut>>
            /\ UNCHANGED <<repairVars, batchVars>>

NextServe == ScriptRun \/ ScriptRunPredict

SpecServe == InitServe /\ [][NextServe]_vars

\* C9: when the selected primary_model_7d has an indicator column in the
\* contract, the scored row has that column at 1 and the other
\* primary_model_7d indicator columns at 0.
SelectionSetsIndicator ==
    call # None =>
        \A i \in 1 .. Len(Categories) :
            (/\ Categories[i] = payload.primary_model_7d
             /\ DummyName(Categories[i]) \in SeqToSet(FEATURES))
            => \A k \in 1 .. Len(X) :
                  /\ X[k].col = DummyName(Categories[i]) => X[k].val = 1
                  /\ (\E j \in 1 .. Len(Categories) :
                         j # i /\ X[k].col = DummyName(Categories[j])) => X[k].val = 0

====
